---- MODULE Spec2Model ----
(***************************************************************************)
(* A model of flash_attention_fallback.py: the CPU fallback of Flash       *)
(* Attention (flash_attn_func, flash_attn_varlen_func, the FlashAttention  *)
(* module wrapper and the notice printed when the module is loaded).       *)
(*                                                                         *)
(* Tensors are records [shape, data]: data is the row-major flattening of  *)
(* the logical tensor.  Element values are mathematical reals, not IEEE    *)
(* floats: q, k, v hold integers; a scaled score is c * s for an integer c *)
(* and the scale s; a softmax weight and an output element are quotients   *)
(* num(y) / den(y) of polynomials in y = exp(-|s|), which is exact.        *)
(***************************************************************************)
EXTENDS Integers, Sequences, FiniteSets, TLC

(***************************************************************************)
(* Bounds of the model.                                                    *)
(***************************************************************************)
\* q has at most MaxNumel elements
MaxNumel == 8
\* q has at most MaxMisNumel elements when k or v is given another shape
MaxMisNumel == 4
\* the element patterns 0..MaxSeed of a tensor
MaxSeed == 1

(***************************************************************************)
(* Arithmetic helpers.                                                     *)
(***************************************************************************)
RECURSIVE Prod(_)
Prod(s) == IF s = <<>> THEN 1 ELSE Head(s) * Prod(Tail(s))

RECURSIVE SumSeq(_)
SumSeq(s) == IF s = <<>> THEN 0 ELSE Head(s) + SumSeq(Tail(s))

Max(S) == CHOOSE x \in S : \A y \in S : y <= x

(***************************************************************************)
(* Polynomials in y with integer coefficients: p[i] is the coefficient of  *)
(* y^(i-1); the last coefficient is not zero, so <<>> is the polynomial 0  *)
(* and equal polynomials are equal sequences.                              *)
(***************************************************************************)
RECURSIVE Trim(_)
Trim(p) == IF p = <<>> THEN <<>>
           ELSE IF p[Len(p)] = 0 THEN Trim(SubSeq(p, 1, Len(p) - 1))
           ELSE p

Coef(p, i) == IF i <= Len(p) THEN p[i] ELSE 0

PolyAdd(p, r) ==
    Trim([i \in 1..(IF Len(p) >= Len(r) THEN Len(p) ELSE Len(r)) |->
              Coef(p, i) + Coef(r, i)])

PolyScale(c, p) == Trim([i \in 1..Len(p) |-> c * p[i]])

Monomial(e) == [i \in 1..(e + 1) |-> IF i = e + 1 THEN 1 ELSE 0]

RECURSIVE PolySum(_)
PolySum(ps) == IF ps = <<>> THEN <<>> ELSE PolyAdd(Head(ps), PolySum(Tail(ps)))

(***************************************************************************)
(* Scalars.  A scale is None or the real number sgn * sqrt(n / d), n / d   *)
(* in lowest terms: 0 is (0, 0, 1), 1 is (1, 1, 1), 1/2 is (1, 1, 4),      *)
(* 2 ** -0.5 is (1, 1, 2).                                                 *)
(***************************************************************************)
None == [isNone |-> TRUE, sgn |-> 0, n |-> 0, d |-> 1]

Real(sgn, n, d) == [isNone |-> FALSE, sgn |-> sgn, n |-> n, d |-> d]

\* headdim ** -0.5
PowMinusHalf(headdim) == Real(1, 1, headdim)

(***************************************************************************)
(* Tensor primitives of torch used by the module.                          *)
(***************************************************************************)
\* (data \o <<>> is data, held as an explicit sequence)
Tensor(shape, data) == [shape |-> shape, data |-> data \o <<>>]

Numel(shape) == Prod(shape)

Rank(t) == Len(t.shape)

\* t.transpose(1, 2): the logical tensor with dimensions 1 and 2 swapped.
\* It needs at least three dimensions (IndexError otherwise).
TransposeRaises(t) == Rank(t) < 3

Transpose12(t) ==
    LET s == t.shape
        A == s[1]
        B == s[2]
        C == s[3]
        R == Prod(SubSeq(s, 4, Len(s)))
        shape == <<A, C, B>> \o SubSeq(s, 4, Len(s))
    IN  Tensor(shape,
               [m \in 1..Numel(s) |->
                   LET m0 == m - 1
                       r == m0 % R
                       b == (m0 \div R) % B
                       c == (m0 \div (R * B)) % C
                       a == m0 \div (R * B * C)
                   IN  t.data[((a * B + b) * C + c) * R + r + 1]])

\* t.transpose(-2, -1) of a 3-D tensor (N, I, J): shape (N, J, I).
TransposeLast(t) ==
    LET N == t.shape[1]
        I == t.shape[2]
        J == t.shape[3]
    IN  Tensor(<<N, J, I>>,
               [m \in 1..(N * J * I) |->
                   LET m0 == m - 1
                       i == m0 % I
                       j == (m0 \div I) % J
                       b == m0 \div (I * J)
                   IN  t.data[(b * I + i) * J + j + 1]])

\* t.reshape(shape): the same elements in row-major order under a new shape.
\* It needs the same number of elements (RuntimeError otherwise).
ReshapeRaises(t, shape) == Numel(t.shape) # Numel(shape)

Reshape(t, shape) == Tensor(shape, t.data)

\* torch.matmul(a, b) of 3-D tensors (N, I, M) and (N, M, J): shape (N, I, J).
MatMul(a, b) ==
    LET N == a.shape[1]
        I == a.shape[2]
        M == a.shape[3]
        J == b.shape[3]
    IN  Tensor(<<N, I, J>>,
               [m \in 1..(N * I * J) |->
                   LET m0 == m - 1
                       j == m0 % J
                       i == (m0 \div J) % I
                       b0 == m0 \div (I * J)
                   IN  SumSeq([x \in 1..M |->
                           a.data[(b0 * I + i) * M + x]
                         * b.data[(b0 * M + (x - 1)) * J + j + 1]])])

\* t * softmax_scale: every element c becomes the real c * s.
MulScalar(t, s) ==
    Tensor(t.shape, [m \in 1..Len(t.data) |->
                        [ninf |-> FALSE, c |-> t.data[m], s |-> s]])

\* float('-inf')
NegInf == [ninf |-> TRUE, c |-> 0, s |-> None]

\* torch.ones_like(t)
OnesLike(t) == Tensor(t.shape, [m \in 1..Len(t.data) |-> 1])

\* Triu with the comparison turned round (torch.tril).
TriuLower(t, diagonal) ==
    LET I == t.shape[2]
        J == t.shape[3]
    IN  Tensor(t.shape,
               [m \in 1..Len(t.data) |->
                   LET j == (m - 1) % J
                       i == ((m - 1) \div J) % I
                   IN  IF j - i <= diagonal THEN t.data[m] ELSE 0])

\* torch.triu(t, diagonal) of a 3-D tensor (N, I, J): element (i, j) is kept
\* when j - i >= diagonal and is 0 otherwise.
Triu(t, diagonal) ==
    LET I == t.shape[2]
        J == t.shape[3]
    IN  Tensor(t.shape,
               [m \in 1..Len(t.data) |->
                   LET j == (m - 1) % J
                       i == ((m - 1) \div J) % I
                   IN  IF j - i >= diagonal THEN t.data[m] ELSE 0])

\* t.bool()
ToBool(t) == Tensor(t.shape, [m \in 1..Len(t.data) |-> t.data[m] # 0])

\* CausalMask with diagonal=0: the diagonal is masked too.
CausalMaskDiag0(scores) == ToBool(Triu(OnesLike(scores), 0))

\* The mask of line 56: torch.triu(torch.ones_like(scores), diagonal=1).bool()
CausalMask(scores) == ToBool(Triu(OnesLike(scores), 1))

\* t.masked_fill_(mask, value), an in-place method: what the receiver holds
\* after the call (which is also what the call returns).
MaskedFill_(t, mask, value) ==
    Tensor(t.shape, [m \in 1..Len(t.data) |->
                        IF mask.data[m] THEN value ELSE t.data[m]])

(***************************************************************************)
(* F.softmax(scores, dim=-1).  A weight is the real num(y) / den(y) with   *)
(* y = exp(-sqrt(base[1] / base[2])), or NaN.  In a row whose unmasked     *)
(* scores are c_j * s, weight j is exp(c_j * s - max) / sum_k exp(c_k * s  *)
(* - max) = y^(a_j) / sum_k y^(a_k) with a_j = max_k(sgn * c_k) - sgn *    *)
(* c_j; exp(-inf) = 0; a row of -inf only gives NaN.  A quotient of        *)
(* constants is written with base (0, 1).                                  *)
(***************************************************************************)
Zero == [nan |-> FALSE, num |-> <<>>, den |-> <<1>>, base |-> <<0, 1>>]

NaN == [nan |-> TRUE, num |-> <<>>, den |-> <<>>, base |-> <<0, 1>>]

Frac(num, den, base) ==
    IF num = <<>> THEN Zero
    ELSE [nan |-> FALSE, num |-> num, den |-> den,
          base |-> IF Len(num) <= 1 /\ Len(den) <= 1 THEN <<0, 1>> ELSE base]

SoftmaxRow(row) ==
    LET U == {j \in 1..Len(row) : ~row[j].ninf}
    IN  IF U = {} THEN [j \in 1..Len(row) |-> NaN]
        ELSE LET s == row[CHOOSE j \in U : TRUE].s
                 a == LET t == [j \in 1..Len(row) |-> s.sgn * row[j].c] \o <<>>
                          mx == Max({t[j] : j \in U})
                      IN  [j \in 1..Len(row) |-> mx - t[j]] \o <<>>
                 den == PolySum([j \in 1..Len(row) |->
                                    IF j \in U THEN Monomial(a[j]) ELSE <<>>])
             IN  [j \in 1..Len(row) |->
                     IF j \in U THEN Frac(Monomial(a[j]), den, <<s.n, s.d>>)
                     ELSE Zero]

Softmax(t) ==
    LET J == t.shape[3]
        rows == [r \in 1..(Len(t.data) \div J) |->
                    SoftmaxRow(SubSeq(t.data, (r - 1) * J + 1, r * J)) \o <<>>]
                \o <<>>
    IN  Tensor(t.shape,
               [m \in 1..Len(t.data) |->
                   rows[((m - 1) \div J) + 1][((m - 1) % J) + 1]])

\* torch.matmul(attn_weights, v) of weights (N, I, J) and values (N, J, D):
\* shape (N, I, D).  The weights of a row share their denominator.
MatMulWeights(w, v) ==
    LET N == w.shape[1]
        I == w.shape[2]
        J == w.shape[3]
        D == v.shape[3]
    IN  Tensor(<<N, I, D>>,
               [m \in 1..(N * I * D) |->
                   LET m0 == m - 1
                       d == m0 % D
                       i == (m0 \div D) % I
                       b == m0 \div (I * D)
                       wt(j) == w.data[(b * I + i) * J + j]
                       val(j) == v.data[(b * J + (j - 1)) * D + d + 1]
                       nz == {j \in 1..J : wt(j).num # <<>>}
                   IN  IF \E j \in 1..J : wt(j).nan THEN NaN
                       ELSE IF nz = {} THEN Zero
                       ELSE LET j0 == CHOOSE j \in nz : TRUE
                            IN  Frac(PolySum([j \in 1..J |->
                                         PolyScale(val(j), wt(j).num)]),
                                     wt(j0).den, wt(j0).base)])

(***************************************************************************)
(* flash_attn_func.                                                        *)
(***************************************************************************)
FallbackWarning == "UserWarning: Using CPU fallback for Flash Attention."

VarlenWarning ==
    "UserWarning: Variable-length Flash Attention fallback not fully implemented."

\* Line 108: the notice printed by the module body.
Notice == "print: Using Flash Attention CPU fallback."

NoTensor == Tensor(<<>>, <<>>)

\* A call that ends in an exception of the tensor library or of the
\* interpreter: nothing is returned.  q, k, v are the caller's tensor objects
\* as the call leaves them, events what the call did, in order.
Raised(error, events, q, k, v) ==
    [status |-> "raised", error |-> error, out |-> NoTensor, scale |-> None,
     mask |-> NoTensor, attn_weights |-> NoTensor,
     q |-> q, k |-> k, v |-> v, events |-> events \o <<"raise">>]

\* EffectiveScale with `if not softmax_scale:` for `if softmax_scale is None:`
EffectiveScaleFalsy(softmax_scale, headdim) ==
    IF softmax_scale.isNone \/ softmax_scale.sgn = 0
    THEN PowMinusHalf(headdim) ELSE softmax_scale

\* Lines 43-44: the scale multiplied into the scores.
EffectiveScale(softmax_scale, headdim) ==
    IF softmax_scale.isNone THEN PowMinusHalf(headdim) ELSE softmax_scale

\* TransposeCall with the in-place transpose_(1, 2): the receiver changes.
TransposeCallInPlace(t) == [result |-> Transpose12(t), self |-> Transpose12(t)]

\* t.transpose(1, 2) as a method call: the new tensor it returns and the
\* receiver after the call (transpose is not in-place: the receiver is kept).
TransposeCall(t) == [result |-> Transpose12(t), self |-> t]

\* ReshapeBack without the transpose.
ReshapeBackNoTranspose(out, batch, nheads, seqlen, headdim) ==
    Reshape(out, <<batch, nheads, seqlen, headdim>>)

\* Line 66: out.reshape(batch, nheads, seqlen, headdim).transpose(1, 2)
ReshapeBack(out, batch, nheads, seqlen, headdim) ==
    Transpose12(Reshape(out, <<batch, nheads, seqlen, headdim>>))

\* Lines 34-68, the body of flash_attn_func: it reads q, k, v, softmax_scale
\* and causal only.
FlashAttnBody(q, k, v, softmax_scale, causal) ==
    LET warned == <<FallbackWarning>>
    IN
    IF Rank(q) # 4 THEN Raised("ValueError", warned \o <<"unpack">>, q, k, v)
    ELSE
    LET batch == q.shape[1]
        seqlen == q.shape[2]
        nheads == q.shape[3]
        headdim == q.shape[4]
        scale == EffectiveScale(softmax_scale, headdim)
        shape3 == <<batch * nheads, seqlen, headdim>>
        qT == TransposeCall(q)
        q3 == Reshape(qT.result, shape3)
        kT == TransposeCall(k)
        k3 == Reshape(kT.result, shape3)
        vT == TransposeCall(v)
        v3 == Reshape(vT.result, shape3)
        scores == MulScalar(MatMul(q3, TransposeLast(k3)), scale)
        mask == IF causal THEN CausalMask(scores) ELSE NoTensor
        \* masked_fill_ works in place on scores, a tensor made by line 52
        masked == IF causal THEN MaskedFill_(scores, mask, NegInf) ELSE scores
        attn_weights == Softmax(masked)
        out == ReshapeBack(MatMulWeights(attn_weights, v3),
                           batch, nheads, seqlen, headdim)
        ev1 == warned \o <<"unpack", "reshape q">>
        ev2 == ev1 \o <<"reshape k">>
        ev3 == ev2 \o <<"reshape v">>
    IN
    IF TransposeRaises(k) THEN Raised("IndexError", ev1, qT.self, k, v)
    ELSE IF ReshapeRaises(kT.result, shape3)
    THEN Raised("RuntimeError", ev1, qT.self, kT.self, v)
    ELSE IF TransposeRaises(v) THEN Raised("IndexError", ev2, qT.self, kT.self, v)
    ELSE IF ReshapeRaises(vT.result, shape3)
    THEN Raised("RuntimeError", ev2, qT.self, kT.self, vT.self)
    ELSE [status |-> "returned", error |-> "", out |-> out,
          \* the factor that the scores carry
          scale |-> scores.data[1].s,
          mask |-> mask, attn_weights |-> attn_weights,
          q |-> qT.self, k |-> kT.self, v |-> vT.self,
          events |-> ev3 \o <<"matmul">>
                     \o (IF causal THEN <<"masked_fill_">> ELSE <<>>)
                     \o <<"softmax", "matmul", "reshape out", "return">>]

\* FlashAttnFunc that applies dropout_p: with dropout_p = 1 every element of
\* the output is dropped.
FlashAttnFuncDropout(q, k, v, dropout_p, softmax_scale, causal, window_size, alibi_slopes, deterministic) ==
    LET r == FlashAttnBody(q, k, v, softmax_scale, causal)
    IN  IF r.status = "returned" /\ dropout_p = 1
        THEN [r EXCEPT !.out = Tensor(r.out.shape,
                                      [m \in 1..Len(r.out.data) |-> Zero])]
        ELSE r

\* FlashAttnFunc that prints the notice on every call.
FlashAttnFuncPrinting(q, k, v, dropout_p, softmax_scale, causal, window_size, alibi_slopes, deterministic) ==
    LET r == FlashAttnBody(q, k, v, softmax_scale, causal)
    IN  [r EXCEPT !.events = <<Notice>> \o r.events]

\* Lines 17-68: dropout_p, window_size, alibi_slopes and deterministic are
\* parameters the body never reads.
FlashAttnFunc(q, k, v, dropout_p, softmax_scale, causal, window_size, alibi_slopes, deterministic) ==
    FlashAttnBody(q, k, v, softmax_scale, causal)

\* FlashAttnVarlenFunc that checks max_seqlen_q against the query.
FlashAttnVarlenFuncChecked(q, k, v, cu_seqlens_q, cu_seqlens_k, max_seqlen_q, max_seqlen_k, dropout_p, softmax_scale, causal, window_size, alibi_slopes, deterministic) ==
    IF Rank(q) = 4 /\ q.shape[2] # max_seqlen_q
    THEN Raised("ValueError", <<VarlenWarning>>, q, k, v)
    ELSE LET r == FlashAttnFunc(q, k, v, dropout_p, softmax_scale, causal,
                                window_size, alibi_slopes, deterministic)
         IN  [r EXCEPT !.events = <<VarlenWarning>> \o r.events]

\* FlashAttnVarlenFunc without its own warning.
FlashAttnVarlenFuncSilent(q, k, v, cu_seqlens_q, cu_seqlens_k, max_seqlen_q, max_seqlen_k, dropout_p, softmax_scale, causal, window_size, alibi_slopes, deterministic) ==
    FlashAttnFunc(q, k, v, dropout_p, softmax_scale, causal,
                  window_size, alibi_slopes, deterministic)

\* Lines 71-88: the warning, then flash_attn_func with the arguments passed
\* by position.
FlashAttnVarlenFunc(q, k, v, cu_seqlens_q, cu_seqlens_k, max_seqlen_q, max_seqlen_k, dropout_p, softmax_scale, causal, window_size, alibi_slopes, deterministic) ==
    LET r == FlashAttnFunc(q, k, v, dropout_p, softmax_scale, causal,
                           window_size, alibi_slopes, deterministic)
    IN  [r EXCEPT !.events = <<VarlenWarning>> \o r.events]

\* Lines 95-98: FlashAttention.__init__
FlashAttentionInit(softmax_scale, attention_dropout) ==
    [constructed |-> TRUE, softmax_scale |-> softmax_scale,
     dropout_p |-> attention_dropout]

\* Lines 100-104: FlashAttention.forward; the other parameters of
\* flash_attn_func take their defaults.
FlashAttentionForward(self, q, k, v, causal) ==
    FlashAttnFunc(q, k, v, self.dropout_p, self.softmax_scale, causal,
                  <<-1, -1>>, <<>>, FALSE)

(***************************************************************************)
(* The inputs of the model.                                                *)
(***************************************************************************)
\* The (batch, seqlen, nheads, headdim) shapes of at most n elements.
Shapes4(n) == {sh \in (1..n) \X (1..n) \X (1..n) \X (1..n) : Numel(sh) <= n}

\* Shapes that are not 4-D.
OddShapes == {<<2, 2>>, <<2, 1, 2>>}

\* A tensor of the given shape with elements in {-1, 0, 1}.
Gen(shape, seed) ==
    Tensor(shape, [m \in 1..Numel(shape) |->
                      ((m * m + m * seed + seed) % 3) - 1])

Seeds == 0..MaxSeed

\* softmax_scale: None, 0.0 and 2.0
ScaleChoices == {None, Real(0, 0, 1), Real(1, 4, 1)}

\* dropout_p, window_size, alibi_slopes (<<>> is None), deterministic
Defaults == [dropout_p |-> 0, window_size |-> <<-1, -1>>,
             alibi_slopes |-> <<>>, deterministic |-> FALSE]

InertChoices ==
    {Defaults,
     [dropout_p |-> 1, window_size |-> <<0, 0>>,
      alibi_slopes |-> <<1, 2>>, deterministic |-> TRUE]}

\* cu_seqlens_q, cu_seqlens_k, max_seqlen_q, max_seqlen_k
NoRagged == [cu_seqlens_q |-> <<>>, cu_seqlens_k |-> <<>>,
             max_seqlen_q |-> 0, max_seqlen_k |-> 0]

RaggedChoices ==
    {[cu_seqlens_q |-> <<0, 2>>, cu_seqlens_k |-> <<0, 2>>,
      max_seqlen_q |-> 2, max_seqlen_k |-> 2],
     [cu_seqlens_q |-> <<0, 1, 2>>, cu_seqlens_k |-> <<0, 2, 3>>,
      max_seqlen_q |-> 1, max_seqlen_k |-> 2]}

Input(q, k, v, softmax_scale, causal) ==
    [q |-> q, k |-> k, v |-> v, softmax_scale |-> softmax_scale,
     causal |-> causal]

\* q, k, v of one shape: every element pattern under the default scale, and
\* every scale.
WellShaped(scales) ==
    {Input(Gen(sh, sd), Gen(sh, sd + 1), Gen(sh, sd + 2), sc, c) :
        sh \in Shapes4(MaxNumel), sd \in Seeds, sc \in scales \cap {None},
        c \in BOOLEAN}
    \cup
    {Input(Gen(sh, 0), Gen(sh, 1), Gen(sh, 2), sc, c) :
        sh \in Shapes4(MaxNumel), sc \in scales, c \in BOOLEAN}

\* q of any shape of at most n elements and k or v of another such shape.
MisShaped(n, scales) ==
    LET pool == Shapes4(n) \cup OddShapes
    IN  {Input(Gen(sh, 0), Gen(IF w = "k" THEN other ELSE sh, 1),
               Gen(IF w = "v" THEN other ELSE sh, 2), sc, TRUE) :
            sh \in pool, other \in pool, w \in {"k", "v"},
            sc \in scales \cap {None, Real(1, 4, 1)}}

FuncInputs ==
    (WellShaped(ScaleChoices) \X InertChoices)
    \cup (MisShaped(MaxMisNumel, {None}) \X {Defaults})

VarlenInputs ==
    (WellShaped(ScaleChoices) \cup MisShaped(2, {None})) \X RaggedChoices

ForwardInputs(self) ==
    WellShaped({self.softmax_scale}) \cup MisShaped(2, {self.softmax_scale})

(***************************************************************************)
(* The state: the process (is the module loaded, how often its notice was  *)
(* printed), the FlashAttention object of the caller, the last call with   *)
(* its arguments, what it gave (ret), and what the call before gave when   *)
(* the last call repeats it (prev).                                        *)
(***************************************************************************)
VARIABLES loaded, printed, module, call, ret, prev

vars == <<loaded, printed, module, call, ret, prev>>

NoModule == [constructed |-> FALSE, softmax_scale |-> None, dropout_p |-> 0]

ModuleChoices == {FlashAttentionInit(None, 0),
                  FlashAttentionInit(Real(1, 4, 1), 1)}

NoRet == [status |-> "none", error |-> "", out |-> NoTensor, scale |-> None,
          mask |-> NoTensor, attn_weights |-> NoTensor,
          q |-> NoTensor, k |-> NoTensor, v |-> NoTensor, events |-> <<>>]

CallRecord(fn, in, inert, ragged, again) ==
    [fn |-> fn, q |-> in.q, k |-> in.k, v |-> in.v,
     softmax_scale |-> in.softmax_scale, causal |-> in.causal,
     inert |-> inert, ragged |-> ragged, again |-> again]

NoCall == CallRecord("none", Input(NoTensor, NoTensor, NoTensor, None, FALSE),
                     Defaults, NoRagged, FALSE)

EntryPoints == {"flash_attn_func", "flash_attn_varlen_func", "forward"}

Init ==
    /\ loaded = FALSE
    /\ printed = 0
    /\ module = NoModule
    /\ call = NoCall
    /\ ret = NoRet
    /\ prev = NoRet

\* How many notices a sequence of events prints.
Prints(events) == Cardinality({i \in 1..Len(events) : events[i] = Notice})

\* Lines 12-108, the module body: the definitions, then the print of the
\* notice.
ModuleBody == <<Notice>>

\* `import flash_attention_fallback`.  The first import runs the module
\* body; a later import finds the module loaded and runs nothing.
Import ==
    /\ loaded' = TRUE
    /\ printed' = printed + Prints(IF loaded THEN <<>> ELSE ModuleBody)
    /\ call' = NoCall
    /\ ret' = NoRet
    /\ prev' = NoRet
    /\ UNCHANGED module

\* The result of the call described by c.
Result(c, self) ==
    IF c.fn = "flash_attn_func"
    THEN FlashAttnFunc(c.q, c.k, c.v, c.inert.dropout_p, c.softmax_scale,
                       c.causal, c.inert.window_size, c.inert.alibi_slopes,
                       c.inert.deterministic)
    ELSE IF c.fn = "flash_attn_varlen_func"
    THEN FlashAttnVarlenFunc(c.q, c.k, c.v, c.ragged.cu_seqlens_q,
                             c.ragged.cu_seqlens_k, c.ragged.max_seqlen_q,
                             c.ragged.max_seqlen_k, c.inert.dropout_p,
                             c.softmax_scale, c.causal, c.inert.window_size,
                             c.inert.alibi_slopes, c.inert.deterministic)
    ELSE FlashAttentionForward(self, c.q, c.k, c.v, c.causal)

\* The caller makes a call when no call is recorded.  A call reads nothing
\* that an earlier call left, so the states reached are those of a caller
\* that calls at any time.
Idle == loaded /\ call.fn = "none"

\* A call of flash_attn_func.
CallFunc ==
    /\ Idle
    /\ \E x \in FuncInputs :
          /\ call' = CallRecord("flash_attn_func", x[1], x[2], NoRagged, FALSE)
          /\ ret' = Result(call', module)
    /\ prev' = NoRet
    /\ printed' = printed + Prints(ret'.events)
    /\ UNCHANGED <<loaded, module>>

\* A call of flash_attn_varlen_func.
CallVarlen ==
    /\ Idle
    /\ \E x \in VarlenInputs :
          /\ call' = CallRecord("flash_attn_varlen_func", x[1], Defaults, x[2],
                                FALSE)
          /\ ret' = Result(call', module)
    /\ prev' = NoRet
    /\ printed' = printed + Prints(ret'.events)
    /\ UNCHANGED <<loaded, module>>

\* FlashAttention(softmax_scale, attention_dropout)
Construct ==
    /\ loaded
    /\ \E m \in ModuleChoices : module' = m
    /\ call' = NoCall
    /\ ret' = NoRet
    /\ prev' = NoRet
    /\ UNCHANGED <<loaded, printed>>

\* module(q, k, v, causal): FlashAttention.forward.  The call record shows
\* the scale and the dropout the object was built with.
Forward ==
    /\ Idle
    /\ module.constructed
    /\ \E in \in ForwardInputs(module) :
          /\ call' = CallRecord("forward", in,
                                [Defaults EXCEPT !.dropout_p = module.dropout_p],
                                NoRagged, FALSE)
          /\ ret' = Result(call', module)
    /\ prev' = NoRet
    /\ printed' = printed + Prints(ret'.events)
    /\ UNCHANGED <<loaded, module>>

\* The caller repeats the last call: the same arguments, with the tensor
\* objects q, k, v as that call left them.
CallAgain ==
    /\ loaded
    /\ call.fn \in EntryPoints
    /\ ~call.again
    /\ call' = [call EXCEPT !.q = ret.q, !.k = ret.k, !.v = ret.v,
                            !.again = TRUE]
    /\ ret' = Result(call', module)
    /\ prev' = ret
    /\ printed' = printed + Prints(ret'.events)
    /\ UNCHANGED <<loaded, module>>

Next == Import \/ CallFunc \/ CallVarlen \/ Construct \/ Forward \/ CallAgain

Spec == Init /\ [][Next]_vars

(***************************************************************************)
(* Properties.                                                             *)
(***************************************************************************)
Returned == call.fn \in EntryPoints /\ ret.status = "returned"

\* q, k and v of the call have one shape (batch, seqlen, nheads, headdim).
OneShape == call.k.shape = call.q.shape /\ call.v.shape = call.q.shape

Batch == call.q.shape[1]
SeqLen == call.q.shape[2]
NHeads == call.q.shape[3]
HeadDim == call.q.shape[4]

\* Element (n, i, j) of a tensor (batch * nheads, seqlen, seqlen), from 0.
At3(t, n, i, j) == t.data[(n * SeqLen + i) * SeqLen + j + 1]

\* Element (b, i, h, d) of a tensor (batch, seqlen, nheads, headdim), from 0.
At4(t, b, i, h, d) == t.data[((b * SeqLen + i) * NHeads + h) * HeadDim + d + 1]

\* The average of the value vectors at key positions 0..i, component d, of
\* batch b and head h, weighted by row i of the attention weights.
AverageUpTo(b, h, i, d) ==
    LET w(j) == At3(ret.attn_weights, b * NHeads + h, i, j - 1)
    IN  Frac(PolySum([j \in 1..(i + 1) |->
                         PolyScale(At4(call.v, b, j - 1, h, d), w(j).num)]),
             w(1).den, w(1).base)

\* C1: in a causal call with q, k, v of one shape, the masked key positions
\* of query position i are exactly the j > i, every weight on a j > i is
\* zero, and output[b, i, h, :] is the average of the value vectors at key
\* positions 0..i under weights that sum to 1.
C1_CausalOutput ==
    (Returned /\ call.causal /\ OneShape) =>
        \A b \in 0..(Batch - 1), h \in 0..(NHeads - 1), i \in 0..(SeqLen - 1) :
            LET n == b * NHeads + h
            IN  /\ \A j \in 0..(SeqLen - 1) :
                      /\ At3(ret.mask, n, i, j) <=> (j > i)
                      /\ (j > i) => At3(ret.attn_weights, n, i, j) = Zero
                /\ PolySum([j \in 1..(i + 1) |->
                               At3(ret.attn_weights, n, i, j - 1).num])
                       = At3(ret.attn_weights, n, i, 0).den
                /\ \A d \in 0..(HeadDim - 1) :
                      At4(ret.out, b, i, h, d) = AverageUpTo(b, h, i, d)

C1_Witness ==
    /\ Returned /\ call.causal /\ OneShape
    /\ call.fn = "flash_attn_func"
    /\ SeqLen >= 3 /\ NHeads >= 2
    /\ \E m \in 1..Len(ret.out.data) : Len(ret.out.data[m].den) >= 2

\* C2: flash_attn_varlen_func returns the output of flash_attn_func called
\* with the same q, k, v, softmax_scale and causal, or raises the same
\* error, whatever cu_seqlens_q, cu_seqlens_k, max_seqlen_q, max_seqlen_k.
C2_VarlenIsFixed ==
    call.fn = "flash_attn_varlen_func" =>
        LET r == FlashAttnFunc(call.q, call.k, call.v, 0, call.softmax_scale,
                               call.causal, <<-1, -1>>, <<>>, FALSE)
        IN  /\ ret.status = r.status
            /\ ret.error = r.error
            /\ ret.out = r.out

C2_Witness ==
    /\ call.fn = "flash_attn_varlen_func"
    /\ ret.status = "returned"
    /\ call.causal
    /\ SeqLen = 3
    /\ call.ragged.max_seqlen_q = 1
    /\ call.ragged.cu_seqlens_q # call.ragged.cu_seqlens_k

\* C3: a call of flash_attn_func, or of FlashAttention.forward, gives what
\* the call with the same q, k, v, softmax_scale and causal and the default
\* dropout_p, window_size, alibi_slopes and deterministic gives.
C3_InertParameters ==
    call.fn \in {"flash_attn_func", "forward"} =>
        LET r == FlashAttnFunc(call.q, call.k, call.v, 0, call.softmax_scale,
                               call.causal, <<-1, -1>>, <<>>, FALSE)
        IN  /\ ret.status = r.status
            /\ ret.error = r.error
            /\ ret.out = r.out

C3_Witness ==
    /\ call.fn = "flash_attn_func"
    /\ ret.status = "returned"
    /\ call.inert.dropout_p = 1
    /\ call.inert.window_size = <<0, 0>>
    /\ call.inert.alibi_slopes # <<>>
    /\ call.inert.deterministic
    /\ \E m \in 1..Len(ret.out.data) : ret.out.data[m] # Zero

\* C4: the notice is printed once when the module is loaded and never
\* again: the count is 0 before the load and 1 in every state after it.
C4_NoticeOnce == printed = (IF loaded THEN 1 ELSE 0)

C4_Witness ==
    /\ loaded /\ printed = 1
    /\ module.constructed
    /\ call.fn = "forward" /\ call.again
    /\ ret.status = "returned"

\* C5: a call of an entry point issues its warning before anything else and
\* goes on after it: flash_attn_func and FlashAttention.forward the fallback
\* warning, never the variable-length one; flash_attn_varlen_func the
\* variable-length warning first and then the steps of flash_attn_func.
C5_WarningsFirst ==
    LET ev == ret.events
        FuncSteps(e) == /\ Len(e) >= 2
                        /\ e[1] = FallbackWarning
                        /\ e[2] = "unpack"
                        /\ e[Len(e)] \in {"return", "raise"}
    IN  /\ call.fn \in {"flash_attn_func", "forward"} =>
              /\ FuncSteps(ev)
              /\ \A i \in 1..Len(ev) : ev[i] # VarlenWarning
        /\ call.fn = "flash_attn_varlen_func" =>
              /\ Len(ev) >= 1
              /\ ev[1] = VarlenWarning
              /\ FuncSteps(Tail(ev))

C5_Witness ==
    /\ call.fn = "flash_attn_varlen_func"
    /\ ret.status = "raised"
    /\ ret.error = "RuntimeError"
    /\ ret.events[1] = VarlenWarning

\* C6: the output of a call that returns has the shape (batch, seqlen,
\* nheads, headdim) of the query.
C6_OutputShape == Returned => ret.out.shape = call.q.shape

C6_Witness ==
    /\ Returned
    /\ call.fn = "flash_attn_func"
    /\ call.q.shape = <<2, 1, 2, 2>>
    /\ ret.out.shape = <<2, 1, 2, 2>>

\* C7: the factor multiplied into the scores is headdim ** -0.5 when
\* softmax_scale is None and the value passed otherwise; forward passes the
\* scale the object was built with.
C7_Scale ==
    Returned =>
        LET passed == IF call.fn = "forward" THEN module.softmax_scale
                      ELSE call.softmax_scale
        IN  ret.scale = IF passed.isNone THEN Real(1, 1, HeadDim) ELSE passed

C7_Witness ==
    /\ Returned
    /\ call.fn = "flash_attn_func"
    /\ call.softmax_scale = Real(0, 0, 1)
    /\ HeadDim = 2
    /\ ret.scale = Real(0, 0, 1)

\* C8: a call of flash_attn_func leaves the caller's q, k and v as they
\* were, and the same call made again gives the same result.
C8_Idempotent ==
    call.fn = "flash_attn_func" =>
        /\ ret.q = call.q /\ ret.k = call.k /\ ret.v = call.v
        /\ call.again => (/\ ret.status = prev.status
                          /\ ret.error = prev.error
                          /\ ret.out = prev.out
                          /\ call.q = prev.q /\ call.k = prev.k
                          /\ call.v = prev.v)

C8_Witness ==
    /\ call.fn = "flash_attn_func" /\ call.again
    /\ ret.status = "returned"
    /\ call.causal
    /\ SeqLen >= 2 /\ NHeads >= 2
    /\ \E m \in 1..Len(ret.mask.data) : ret.mask.data[m]

\* C9: every row of the attention weights is a probability distribution:
\* no weight is NaN, every weight is a quotient of polynomials with no
\* negative coefficient (so it is >= 0), the weights of a row have one
\* denominator and their numerators sum to it; under causal masking key 0
\* is never masked.
C9_RowsAreDistributions ==
    Returned =>
        \A n \in 0..(Batch * NHeads - 1), i \in 0..(SeqLen - 1) :
            LET w(j) == At3(ret.attn_weights, n, i, j - 1)
                row == [j \in 1..SeqLen |-> w(j)]
                live == {j \in 1..SeqLen : row[j] # Zero}
            IN  /\ \A j \in 1..SeqLen :
                      /\ ~row[j].nan
                      /\ \A x \in 1..Len(row[j].num) : row[j].num[x] >= 0
                /\ live # {}
                /\ \A j \in live : row[j].den = row[1].den
                /\ row[1].den # <<>>
                /\ PolySum([j \in 1..SeqLen |-> row[j].num]) = row[1].den
                /\ call.causal => ~At3(ret.mask, n, i, 0)

C9_Witness ==
    /\ Returned /\ call.causal
    /\ SeqLen >= 2
    /\ At3(ret.mask, 0, 0, 1)
    /\ At3(ret.attn_weights, 0, 0, 0).num = <<1>>
    /\ At3(ret.attn_weights, 0, 0, 0).den = <<1>>

\* C10: flash_attn_func returns only when k and v have the shape of q.
C10_MisShapedRaises ==
    (call.fn = "flash_attn_func" /\ ret.status = "returned") => OneShape

====
